---- MODULE Spec2Model ----
(***************************************************************************)
(* Model of imu_load/imu_load.py: the timestamp-indexed lookup and linear  *)
(* interpolation shared by the sensor streams (TimestampedData), the       *)
(* RecordStartStop and CameraParams file handlers, and the construction of *)
(* an IMUSensorVideo / HTC1XVid session from a video file name.            *)
(*                                                                         *)
(* Conventions.  Python sequences are modelled by TLA+ sequences; indices  *)
(* that the program returns or passes around keep their Python (0-based)   *)
(* value, and At(s, i) reads the element at Python index i.  A call's      *)
(* outcome is a record [status, msg, val, calls]: status "ok" or the name  *)
(* of the exception raised, msg the exception's message, val the returned  *)
(* value (a tuple), calls the calls the handler made, in order.  A float   *)
(* is modelled by an exact fraction: a pair <<numerators, denominator>>.   *)
(* A string that is sliced or compared by prefix is a sequence of pieces   *)
(* (one-character strings, or whole literals of the program), and string   *)
(* concatenation is sequence concatenation.                                *)
(***************************************************************************)
EXTENDS Integers, Sequences, FiniteSets, TLC

VARIABLES
    timestamps,     \* TimestampedData.timestamps
    data,           \* the payload per timestamp (what __getitem__ reads)
    op,             \* the last query made on the stream
    time_in_ns,     \* its argument
    result,         \* its outcome
    lines,          \* the lines of a RecordingStartStop_ file
    span,           \* the outcome of RecordStartStop(fname) on them
    vid_filename,   \* the basename of the path given to IMUSensorVideo
    fs,             \* the content of the file each profile entry resolves to
    pc,             \* position of IMUSensorVideo.__init__
    vid_id,         \* vid_file_name[6:-4]
    sensor_files,   \* self.sensor_files
    attrs,          \* the python_name attributes set in self.__dict__
    opened,         \* the paths handed to the handlers, in order
    error,          \* the exception that left __init__, if any
    times           \* the outcome of all_times_passed()

seriesVars  == <<timestamps, data, op, time_in_ns, result>>
spanVars    == <<lines, span>>
sessionVars == <<vid_filename, fs, pc, vid_id, sensor_files, attrs, opened, error, times>>
vars        == <<seriesVars, spanVars, sessionVars>>

----------------------------------------------------------------------------
(* Bounds of the model *)

MaxLen == 3        \* longest stream
MaxTime == 4       \* largest timestamp of a generic stream

----------------------------------------------------------------------------
(* Outcomes *)

Ok(v) == [status |-> "ok", msg |-> "", val |-> v, calls |-> <<>>]

Raise(type, m) == [status |-> type, msg |-> m, val |-> <<>>, calls |-> <<>>]

WithCalls(r, c) == [r EXCEPT !.calls = c]

NoResult == [status |-> "none", msg |-> "", val |-> <<>>, calls |-> <<>>]

At(s, i) == s[i + 1]

Last(s) == s[Len(s)]

SetMax(S) == CHOOSE x \in S : \A y \in S : y <= x

SetMin(S) == CHOOSE x \in S : \A y \in S : x <= y

----------------------------------------------------------------------------
(* TimestampedData *)

total_time(ts) ==
    IF Len(ts) = 0
    THEN Raise("IndexError", "index out of bounds")
    ELSE Ok(<<Last(ts) - At(ts, 0)>>)

num_readings(ts) == Len(ts)

getitem(d, key) ==
    IF key >= 0 /\ key < Len(d)
    THEN Ok(<<At(d, key)>>)
    ELSE Raise("IndexError", "index out of bounds")

reading_at_time_first(ts, d, t) ==
    LET correct_indices == {i \in 0 .. Len(ts) - 1 : At(ts, i) = t}
        num_matches == Cardinality(correct_indices)
    IN  IF num_matches = 0
        THEN Raise("ValueError", "no entry for time")
        ELSE getitem(d, SetMin(correct_indices))

reading_at_time(ts, d, t) ==
    LET correct_indices == {i \in 0 .. Len(ts) - 1 : At(ts, i) = t}
        num_matches == Cardinality(correct_indices)
    IN  IF num_matches = 0
        THEN Raise("ValueError", "no entry for time")
        ELSE IF num_matches > 1
        THEN Raise("ValueError", "multiple entries for timestamp")
        ELSE getitem(d, SetMin(correct_indices))

check_time_in_range_open(ts, t) ==
    IF Len(ts) = 0
    THEN Raise("IndexError", "index out of bounds")
    ELSE IF ~(At(ts, 0) < t /\ t <= Last(ts))
    THEN Raise("ValueError", "time is out of range")
    ELSE Ok(<<>>)

check_time_in_range(ts, t) ==
    IF Len(ts) = 0
    THEN Raise("IndexError", "index out of bounds")
    ELSE IF ~(At(ts, 0) <= t /\ t <= Last(ts))
    THEN Raise("ValueError", "time is out of range")
    ELSE Ok(<<>>)

first_reading_below(ts, t) ==
    LET below == {i \in 0 .. Len(ts) - 1 : At(ts, i) <= t}
    IN  IF below = {}
        THEN Raise("ValueError", "zero-size array to reduction operation")
        ELSE Ok(<<At(ts, SetMax(below)), SetMax(below)>>)

first_reading_above_any(ts, t) ==
    IF Len(ts) = 0
    THEN Raise("IndexError", "index out of bounds")
    ELSE IF t = Last(ts)
    THEN Ok(<<t, Len(ts)>>)
    ELSE LET above == {i \in 0 .. Len(ts) - 1 : At(ts, i) > t}
         IN  IF above = {}
             THEN Raise("ValueError", "zero-size array to reduction operation")
             ELSE Ok(<<At(ts, SetMax(above)), SetMax(above)>>)

first_reading_above(ts, t) ==
    IF Len(ts) = 0
    THEN Raise("IndexError", "index out of bounds")
    ELSE IF t = Last(ts)
    THEN Ok(<<t, Len(ts)>>)
    ELSE LET above == {i \in 0 .. Len(ts) - 1 : At(ts, i) > t}
         IN  IF above = {}
             THEN Raise("ValueError", "zero-size array to reduction operation")
             ELSE Ok(<<At(ts, SetMin(above)), SetMin(above)>>)

(* (t * lo) + ((1.0 - t) * hi) with t = n / diff, as numerators over diff *)
Blend_usual(lo, hi, n, diff) ==
    [k \in 1 .. Len(lo) |-> (diff - n) * lo[k] + n * hi[k]]

Blend(lo, hi, n, diff) ==
    [k \in 1 .. Len(lo) |-> n * lo[k] + (diff - n) * hi[k]]

interpolated_reading_at_time(ts, d, t) ==
    LET chk == check_time_in_range(ts, t)
        c1  == <<<<"check_time_in_range", t>>>>
    IN  IF chk.status # "ok" THEN WithCalls(chk, c1) ELSE
    LET above == first_reading_above(ts, t)
        c2    == Append(c1, <<"first_reading_above", t>>)
    IN  IF above.status # "ok" THEN WithCalls(above, c2) ELSE
    LET below == first_reading_below(ts, t)
        c3    == Append(c2, <<"first_reading_below", t>>)
    IN  IF below.status # "ok" THEN WithCalls(below, c3) ELSE
    LET nanoseconds_above == above.val[1]
        nano_above_idx    == above.val[2]
        nanoseconds_below == below.val[1]
        nano_below_idx    == below.val[2]
        diff == nanoseconds_above - nanoseconds_below
        n    == t - nanoseconds_below
        c4   == Append(c3, <<"divide", diff>>)
        lo   == getitem(d, nano_below_idx)
        c5   == Append(c4, <<"getitem", nano_below_idx>>)
    IN  IF lo.status # "ok" THEN WithCalls(lo, c5) ELSE
    LET hi   == getitem(d, nano_above_idx)
        c6   == Append(c5, <<"getitem", nano_above_idx>>)
    IN  IF hi.status # "ok" THEN WithCalls(hi, c6)
        ELSE WithCalls(Ok(<<Blend(lo.val[1], hi.val[1], n, diff), diff>>), c6)

----------------------------------------------------------------------------
(* Streams and queries of the series specification *)

SeqsUpTo(S, n) == UNION {[1 .. m -> S] : m \in 0 .. n}

GenericTimes == 1 .. MaxTime

(* the payload of the i-th line: <<1, 2, 3>>, <<4, 5, 6>>, ... *)
Payload(i) == <<3 * i - 2, 3 * i - 1, 3 * i>>

(* the payloads of a stream of n readings, counting up or counting down *)
DataFor(n) == {[i \in 1 .. n |-> Payload(i)], [i \in 1 .. n |-> Payload(n + 1 - i)]}

ExampleTimestamps == <<1000, 2000>>

ExampleData == <<<<1, 2, 3>>, <<4, 5, 6>>>>

QueryTimes(ts) ==
    IF ts = ExampleTimestamps
    THEN {999, 1000, 1500, 1750, 2000, 2001}
    ELSE 0 .. MaxTime + 1

IdleSeries ==
    /\ timestamps = <<>>
    /\ data = <<>>
    /\ op = "none"
    /\ time_in_ns = 0
    /\ result = NoResult

IdleSpan ==
    /\ lines = <<>>
    /\ span = NoResult

IdleSession ==
    /\ vid_filename = <<>>
    /\ fs = <<>>
    /\ pc = "idle"
    /\ vid_id = <<>>
    /\ sensor_files = <<>>
    /\ attrs = <<>>
    /\ opened = <<>>
    /\ error = NoResult
    /\ times = NoResult

InitSeries ==
    /\ IdleSpan
    /\ IdleSession
    /\ \/ /\ timestamps \in SeqsUpTo(GenericTimes, MaxLen)
          /\ data \in DataFor(Len(timestamps))
       \/ /\ timestamps = ExampleTimestamps
          /\ data = ExampleData
    /\ op = "none"
    /\ time_in_ns = 0
    /\ result = NoResult

Query(name, t, r) ==
    /\ op' = name
    /\ time_in_ns' = t
    /\ result' = r
    /\ UNCHANGED <<timestamps, data, spanVars, sessionVars>>

TotalTime == Query("total_time", 0, total_time(timestamps))

NumReadings == Query("num_readings", 0, Ok(<<num_readings(timestamps)>>))

ReadingAtTime ==
    \E t \in QueryTimes(timestamps) : Query("reading_at_time", t, reading_at_time(timestamps, data, t))

CheckTimeInRange ==
    \E t \in QueryTimes(timestamps) : Query("check_time_in_range", t, check_time_in_range(timestamps, t))

FirstReadingBelow ==
    \E t \in QueryTimes(timestamps) : Query("first_reading_below", t, first_reading_below(timestamps, t))

FirstReadingAbove ==
    \E t \in QueryTimes(timestamps) : Query("first_reading_above", t, first_reading_above(timestamps, t))

InterpolatedReadingAtTime ==
    \E t \in QueryTimes(timestamps) :
        Query("interpolated_reading_at_time", t,
              interpolated_reading_at_time(timestamps, data, t))

----------------------------------------------------------------------------
(* RecordStartStop *)

MaxLines == 3      \* longest RecordingStartStop_ file

(* A line of a RecordingStartStop_ file: whether it starts with "//", the  *)
(* number of fields split("::") gives, the first field, whether the two    *)
(* time fields are integer literals, and the value of the first of them.   *)
SpanLine(c, nf, ev, num, ns) ==
    [comment |-> c, nfields |-> nf, event |-> ev, numeric |-> num, ns |-> ns]

CommentLine == SpanLine(TRUE, 1, "//", FALSE, 0)

SpanLines ==
    {CommentLine}
        \cup {SpanLine(FALSE, 4, ev, TRUE, ns) : ev \in {"Start", "Stop", "Pause"}, ns \in {1, 2}}
        \cup {SpanLine(FALSE, 3, "Start", TRUE, 1), SpanLine(FALSE, 4, "Stop", FALSE, 0)}

StripComments(ls) == LET keep(l) == ~l.comment IN SelectSeq(ls, keep)

RecordStartStop_process(data_line) ==
    IF data_line.nfields # 4
    THEN Raise("ValueError", "wrong number of values to unpack")
    ELSE IF data_line.event \notin {"Start", "Stop"}
    THEN Raise("ValueError", "a line which begins with something other than 'Start' or 'Stop'")
    ELSE IF ~data_line.numeric
    THEN Raise("ValueError", "invalid literal for int()")
    ELSE Ok(<<data_line.ns>>)

(* RecordStartStop.__init__ on a file that exists and holds the lines ls;  *)
(* val is self.timestamps                                                   *)
RecordStartStop_init(ls) ==
    LET stripped == StripComments(ls)
    IN  IF Len(stripped) # 2
        THEN Raise("ValueError", "was expecting 2 non-comment lines")
        ELSE LET start == RecordStartStop_process(stripped[1])
             IN  IF start.status # "ok" THEN start ELSE
             LET end == RecordStartStop_process(stripped[2])
             IN  IF end.status # "ok" THEN end
                 ELSE Ok(<<start.val[1], end.val[1]>>)

InitSpan ==
    /\ IdleSeries
    /\ IdleSession
    /\ lines \in SeqsUpTo(SpanLines, MaxLines)
    /\ span = NoResult

LoadSpan ==
    /\ span.status = "none"
    /\ span' = RecordStartStop_init(lines)
    /\ UNCHANGED <<lines, seriesVars, sessionVars>>

SpanTotalTime ==
    /\ span.status = "ok"
    /\ op = "none"
    /\ op' = "total_time"
    /\ result' = total_time(span.val)
    /\ UNCHANGED <<timestamps, data, time_in_ns, spanVars, sessionVars>>

----------------------------------------------------------------------------
(* Strings of the session: file names *)

Lower(c) ==
    CASE c = "V" -> "v" [] c = "I" -> "i" [] c = "D" -> "d" [] c = "E" -> "e"
      [] c = "O" -> "o" [] c = "M" -> "m" [] c = "P" -> "p" [] c = "B" -> "b"
      [] OTHER -> c

lower(s) == [i \in 1 .. Len(s) |-> Lower(s[i])]

startswith(s, prefix) ==
    Len(s) >= Len(prefix) /\ SubSeq(s, 1, Len(prefix)) = prefix

endswith(s, suffix) ==
    Len(s) >= Len(suffix) /\ SubSeq(s, Len(s) - Len(suffix) + 1, Len(s)) = suffix

PrefixLen == 6

SuffixLen == 4

(* s[a:-b] for a, b > 0 *)
Slice(s, a, b) == SubSeq(s, a + 1, Len(s) - b)

VideoPrefix == <<"v", "i", "d", "e", "o", "-">>

Mp4Suffix == <<".", "m", "p", "4">>

(* os.path.join(a, b) *)
join(a, b) == a \o <<"/">> \o b

----------------------------------------------------------------------------
(* CameraParams and the vector and matrix handlers *)

(* A line of a sensor file: whether it splits into the fields the handler  *)
(* unpacks and converts, and its first field (the timestamp).              *)
DataLine(w, ns) == [wellformed |-> w, ns |-> ns]

File(e, ls) == [exists |-> e, lines |-> ls]

MissingFile == File(FALSE, <<>>)

Stream(handler, ts, d) == [handler |-> handler, timestamps |-> ts, data |-> d]

(* Timestamped4Vec.__init__ and TimestampedMtx.__init__ *)
Timestamped_init(handler, f) ==
    IF ~f.exists
    THEN Raise("IOError", "No such file or directory")
    ELSE IF \E i \in 1 .. Len(f.lines) : ~f.lines[i].wellformed
    THEN Raise("ValueError", "could not convert")
    ELSE Ok(<<Stream(handler, [i \in 1 .. Len(f.lines) |-> f.lines[i].ns], <<>>)>>)

(* the timestamp stays the string split("::") gave *)
CameraParams_process(info_line) ==
    IF ~info_line.wellformed
    THEN Raise("ValueError", "wrong number of values to unpack")
    ELSE Ok(<<[type |-> "str", digits |-> info_line.ns]>>)

RECURSIVE CameraParams_lines(_)
CameraParams_lines(ls) ==
    IF Len(ls) = 0 THEN Ok(<<>>) ELSE
    LET head == CameraParams_process(Head(ls))
    IN  IF head.status # "ok" THEN head ELSE
    LET rest == CameraParams_lines(Tail(ls))
    IN  IF rest.status # "ok" THEN rest ELSE Ok(<<head.val[1]>> \o rest.val)

CameraParams_init(f) ==
    IF ~f.exists
    THEN Raise("IOError", "No such file or directory")
    ELSE LET d == CameraParams_lines(f.lines)
         IN  IF d.status # "ok" THEN d
             ELSE Ok(<<Stream("CameraParams", <<>>, d.val)>>)

(* timestamps[-1] - timestamps[0] *)
Minus(a, b) ==
    IF a.type = "int" /\ b.type = "int"
    THEN Ok(<<a.digits - b.digits>>)
    ELSE Raise("TypeError", "unsupported operand type(s) for -: 'str' and 'str'")

CameraParams_total_time(d) ==
    IF Len(d) > 1 THEN Minus(Last(d), At(d, 0)) ELSE Ok(<<-1>>)

RecordStartStop_open(f) ==
    IF ~f.exists
    THEN Raise("IOError", "No such file or directory")
    ELSE LET r == RecordStartStop_init(f.lines)
         IN  IF r.status # "ok" THEN r
             ELSE Ok(<<Stream("RecordStartStop", r.val, <<>>)>>)

----------------------------------------------------------------------------
(* IMUSensorVideo and HTC1XVid *)

filenames_and_handlers ==
    << <<"AltOrientation_", "alt_orient", "Timestamped4Vec">>,
       <<"AltOrientationFromRotationVector_", "alt_orient_rot_vec", "Timestamped4Vec">>,
       <<"Panasonic_3-axis_Acceleration_sensor_", "pan_3_ax_acc", "Timestamped4Vec">>,
       <<"Panasonic_3-axis_Magnetic_Field_sensor_", "pan_3_ax_mag", "Timestamped4Vec">>,
       <<"Panasonic_Gravity_", "pan_grav", "Timestamped4Vec">>,
       <<"Panasonic_Gyroscope_sensor_", "pan_gyro", "Timestamped4Vec">>,
       <<"Panasonic_Linear_Acceleration_", "pan_acc", "Timestamped4Vec">>,
       <<"Panasonic_Orientation_sensor_", "pan_orient", "Timestamped4Vec">>,
       <<"Panasonic_Rotation_Vector_", "pan_rot_vec", "Timestamped4Vec">>,
       <<"RotationMatrix_", "rot", "TimestampedMtx">>,
       <<"RotationMatrixFromRotationVector_", "rot_from_vec", "TimestampedMtx">>,
       <<"RecordingStartStop_", "video_timing", "RecordStartStop">>,
       <<"CameraParams_", "camera_params", "CameraParams">> >>

NumEntries == Len(filenames_and_handlers)

(* handler(full_fname), f being the content of the file at full_fname *)
Handle(handler, f) ==
    CASE handler = "RecordStartStop" -> RecordStartStop_open(f)
      [] handler = "CameraParams"    -> CameraParams_init(f)
      [] OTHER                       -> Timestamped_init(handler, f)

BaseDir == <<"base_dir">>

metadata_dir_name(id) == <<"videodata_video-">> \o id

full_fname(id, fname) ==
    join(join(BaseDir, metadata_dir_name(id)), <<fname>> \o id \o <<".txt">>)

vid_id_of_short(vid_file_name) == Slice(vid_file_name, PrefixLen - 1, SuffixLen)

vid_id_of(vid_file_name) == Slice(vid_file_name, PrefixLen, SuffixLen)

NoError == NoResult

(* lines 213-235: the checks of the file name, and vid_id *)
CheckName ==
    /\ pc = "start"
    /\ IF ~startswith(lower(vid_filename), VideoPrefix)
       THEN /\ pc' = "raised"
            /\ error' = Raise("ValueError", "expected filename to start with video-")
            /\ UNCHANGED vid_id
       ELSE IF ~endswith(lower(vid_filename), Mp4Suffix)
       THEN /\ pc' = "raised"
            /\ error' = Raise("ValueError", "expected filename to end with mp4")
            /\ UNCHANGED vid_id
       ELSE /\ pc' = "loop"
            /\ vid_id' = vid_id_of(vid_filename)
            /\ UNCHANGED error
    /\ UNCHANGED <<vid_filename, fs, sensor_files, attrs, opened, times>>
    /\ UNCHANGED <<seriesVars, spanVars>>

(* the loop, were a failing handler's exception swallowed *)
LoadNext_continue ==
    /\ pc = "loop"
    /\ Len(opened) < NumEntries
    /\ LET k     == Len(opened) + 1
           entry == filenames_and_handlers[k]
           path  == full_fname(vid_id, entry[1])
           h     == Handle(entry[3], fs[k])
       IN  /\ opened' = Append(opened, path)
           /\ IF h.status # "ok"
              THEN UNCHANGED <<pc, error, sensor_files, attrs>>
              ELSE /\ attrs' = [n \in DOMAIN attrs \cup {entry[2]} |->
                                   IF n = entry[2] THEN h.val[1] ELSE attrs[n]]
                   /\ sensor_files' = Append(sensor_files, h.val[1])
                   /\ UNCHANGED <<pc, error>>
    /\ UNCHANGED <<vid_filename, fs, vid_id, times>>
    /\ UNCHANGED <<seriesVars, spanVars>>

(* lines 238-247: one iteration of the loop over _filenames_and_handlers *)
LoadNext ==
    /\ pc = "loop"
    /\ Len(opened) < NumEntries
    /\ LET k     == Len(opened) + 1
           entry == filenames_and_handlers[k]
           path  == full_fname(vid_id, entry[1])
           h     == Handle(entry[3], fs[k])
       IN  /\ opened' = Append(opened, path)
           /\ IF h.status # "ok"
              THEN /\ pc' = "raised"
                   /\ error' = h
                   /\ UNCHANGED <<sensor_files, attrs>>
              ELSE /\ attrs' = [n \in DOMAIN attrs \cup {entry[2]} |->
                                   IF n = entry[2] THEN h.val[1] ELSE attrs[n]]
                   /\ sensor_files' = Append(sensor_files, h.val[1])
                   /\ UNCHANGED <<pc, error>>
    /\ UNCHANGED <<vid_filename, fs, vid_id, times>>
    /\ UNCHANGED <<seriesVars, spanVars>>

(* the loop is over: __init__ returns and the caller holds the object *)
Return ==
    /\ pc = "loop"
    /\ Len(opened) = NumEntries
    /\ pc' = "constructed"
    /\ UNCHANGED <<vid_filename, fs, vid_id, sensor_files, attrs, opened, error, times>>
    /\ UNCHANGED <<seriesVars, spanVars>>

sensor_total_time(sf) ==
    IF sf.handler = "CameraParams"
    THEN CameraParams_total_time(sf.data)
    ELSE total_time(sf.timestamps)

RECURSIVE all_times_passed(_)
all_times_passed(sfs) ==
    IF Len(sfs) = 0 THEN Ok(<<>>) ELSE
    LET head == sensor_total_time(Head(sfs))
    IN  IF head.status # "ok" THEN head ELSE
    LET rest == all_times_passed(Tail(sfs))
    IN  IF rest.status # "ok" THEN rest ELSE Ok(<<head.val[1]>> \o rest.val)

AllTimesPassed ==
    /\ pc = "constructed"
    /\ times.status = "none"
    /\ times' = all_times_passed(sensor_files)
    /\ UNCHANGED <<vid_filename, fs, pc, vid_id, sensor_files, attrs, opened, error>>
    /\ UNCHANGED <<seriesVars, spanVars>>

----------------------------------------------------------------------------
(* File names and file systems of the session specification *)

MaxIdLen == 2      \* longest session id
MaxFileLines == 2  \* longest vector, matrix or camera parameter file

IdChars == {"a", "B"}

NamePrefixes ==
    { VideoPrefix, <<"V", "I", "D", "E", "O", "-">>, <<"V", "i", "d", "e", "o", "-">>,
      <<"v", "i", "d", "e", "o">>, <<"m", "o", "v", "i", "e", "-">>, <<>> }

NameSuffixes ==
    { Mp4Suffix, <<".", "M", "P", "4">>, <<".", "m", "p", "3">>, <<"m", "p", "4">>, <<>> }

Names == {p \o i \o x : p \in NamePrefixes, i \in SeqsUpTo(IdChars, MaxIdLen), x \in NameSuffixes}

DefaultName == VideoPrefix \o <<"a", "B">> \o Mp4Suffix

DataLines == {DataLine(TRUE, 1), DataLine(TRUE, 4), DataLine(FALSE, 0)}

SessionSpanLines ==
    {CommentLine, SpanLine(FALSE, 4, "Start", TRUE, 1), SpanLine(FALSE, 4, "Stop", TRUE, 2),
     SpanLine(FALSE, 4, "Pause", TRUE, 1)}

ContentsFor(k) ==
    {MissingFile} \cup
    IF filenames_and_handlers[k][3] = "RecordStartStop"
    THEN {File(TRUE, ls) : ls \in SeqsUpTo(SessionSpanLines, MaxLines)}
    ELSE {File(TRUE, ls) : ls \in SeqsUpTo(DataLines, MaxFileLines)}

DefaultFS ==
    [k \in 1 .. NumEntries |->
        CASE filenames_and_handlers[k][3] = "RecordStartStop" ->
                File(TRUE, <<SpanLine(FALSE, 4, "Start", TRUE, 1),
                             SpanLine(FALSE, 4, "Stop", TRUE, 2)>>)
          [] filenames_and_handlers[k][3] = "CameraParams" ->
                File(TRUE, <<DataLine(TRUE, 1)>>)
          [] OTHER -> File(TRUE, <<DataLine(TRUE, k), DataLine(TRUE, 3 * k)>>)]

(* the file systems: one file differs from the default, or two are unreadable *)
FileSystems ==
    UNION {{[DefaultFS EXCEPT ![k] = c] : c \in ContentsFor(k)} : k \in 1 .. NumEntries}
        \cup {[DefaultFS EXCEPT ![i] = MissingFile, ![j] = MissingFile] :
                  i \in 1 .. NumEntries, j \in 1 .. NumEntries}

InitSession ==
    /\ IdleSeries
    /\ IdleSpan
    /\ \/ vid_filename \in Names /\ fs = DefaultFS
       \/ vid_filename = DefaultName /\ fs \in FileSystems
    /\ pc = "start"
    /\ vid_id = <<>>
    /\ sensor_files = <<>>
    /\ attrs = <<>>
    /\ opened = <<>>
    /\ error = NoError
    /\ times = NoResult

----------------------------------------------------------------------------
(* Specifications *)

NextSeries ==
    \/ TotalTime
    \/ NumReadings
    \/ ReadingAtTime
    \/ CheckTimeInRange
    \/ FirstReadingBelow
    \/ FirstReadingAbove
    \/ InterpolatedReadingAtTime

SpecSeries == InitSeries /\ [][NextSeries]_vars

NextSpan == LoadSpan \/ SpanTotalTime

SpecSpan == InitSpan /\ [][NextSpan]_vars

NextSession == CheckName \/ LoadNext \/ Return \/ AllTimesPassed

SpecSession == InitSession /\ [][NextSession]_vars

----------------------------------------------------------------------------
(* Properties of TimestampedData, checked under SpecSeries *)

Ascending(ts) == \A i \in 1 .. Len(ts) - 1 : ts[i] <= ts[i + 1]

StrictlyAscending(ts) == \A i \in 1 .. Len(ts) - 1 : ts[i] < ts[i + 1]

InRange(ts, t) == Len(ts) >= 1 /\ ts[1] <= t /\ t <= ts[Len(ts)]

Interpolated == op = "interpolated_reading_at_time"

(* the outcome is exactly the reading v: every numerator is v's component  *)
(* times the (non-zero) denominator                                        *)
IsExactly(r, v) ==
    /\ r.status = "ok"
    /\ r.val[2] # 0
    /\ r.val[1] = [k \in 1 .. Len(v) |-> r.val[2] * v[k]]

Called(r, name, arg) == \E i \in 1 .. Len(r.calls) : r.calls[i] = <<name, arg>>

(* C1: on a stream of at least two readings with strictly ascending        *)
(* timestamps, interpolating at the first timestamp returns the first      *)
(* reading exactly, with no contribution from the second.                  *)
C1_FirstTimestampGivesFirstReading ==
    (Interpolated /\ Len(timestamps) >= 2 /\ StrictlyAscending(timestamps)
        /\ time_in_ns = timestamps[1])
    => IsExactly(result, data[1])

(* C2: on a non-empty stream, interpolating at the final timestamp returns *)
(* the last reading exactly and does not fail: the stream is never indexed *)
(* at num_readings() and nothing is divided by a zero timestamp difference.*)
C2_FinalTimestampGivesLastReading ==
    (Interpolated /\ Len(timestamps) >= 1 /\ Ascending(timestamps)
        /\ time_in_ns = timestamps[Len(timestamps)])
    => /\ IsExactly(result, data[Len(data)])
       /\ ~Called(result, "getitem", Len(timestamps))
       /\ ~Called(result, "divide", 0)

(* C3: with strictly ascending timestamps and t strictly between the i-th  *)
(* and the next timestamp, the interpolation reads exactly the readings i  *)
(* and i+1 and returns frac * values[i] + (1 - frac) * values[i+1] with    *)
(* frac = (t - timestamps[i]) / (timestamps[i+1] - timestamps[i]); the     *)
(* stream 1000 -> [1,2,3], 2000 -> [4,5,6] gives [2.5, 3.5, 4.5] at 1500.  *)
C3_InteriorInterpolation ==
    /\ (Interpolated /\ StrictlyAscending(timestamps)) =>
          \A i \in 1 .. Len(timestamps) - 1 :
              (timestamps[i] < time_in_ns /\ time_in_ns < timestamps[i + 1]) =>
                  LET den == timestamps[i + 1] - timestamps[i]
                      num == time_in_ns - timestamps[i]
                  IN  /\ result.status = "ok"
                      /\ SubSeq(result.calls, 5, 6) = <<<<"getitem", i - 1>>, <<"getitem", i>>>>
                      /\ Len(result.calls) = 6
                      /\ result.val[2] = den
                      /\ \A k \in 1 .. 3 :
                            result.val[1][k] =
                                num * data[i][k] + (den - num) * data[i + 1][k]
    /\ (Interpolated /\ timestamps = <<1000, 2000>> /\ data = <<<<1, 2, 3>>, <<4, 5, 6>>>>
           /\ time_in_ns = 1500) =>
          /\ result.status = "ok"
          /\ 2 * result.val[1][1] = 5 * result.val[2]
          /\ 2 * result.val[1][2] = 7 * result.val[2]
          /\ 2 * result.val[1][3] = 9 * result.val[2]

C3_Witness ==
    /\ Interpolated
    /\ timestamps = <<1000, 2000>>
    /\ time_in_ns = 1750
    /\ result.status = "ok"
    /\ result.val = <<<<750 * 1 + 250 * 4, 750 * 2 + 250 * 5, 750 * 3 + 250 * 6>>, 1000>>

Matches(ts, t) == {i \in 1 .. Len(ts) : ts[i] = t}

(* C4: reading_at_time(t) returns the reading at i when exactly one index  *)
(* i holds timestamp t; it fails as "no entry" (NotFoundError) when none   *)
(* does, in particular for t strictly between two adjacent timestamps, and *)
(* as "multiple entries" (AmbiguousMatchError) when two or more do; it     *)
(* never returns one of several duplicates.                                *)
C4_ExactTimeLookup ==
    op = "reading_at_time" =>
        /\ \A i \in 1 .. Len(timestamps) :
               Matches(timestamps, time_in_ns) = {i} =>
                   result.status = "ok" /\ result.val = <<data[i]>>
        /\ Matches(timestamps, time_in_ns) = {} =>
               result.status = "ValueError" /\ result.msg = "no entry for time"
        /\ Cardinality(Matches(timestamps, time_in_ns)) >= 2 =>
               result.status = "ValueError" /\ result.msg = "multiple entries for timestamp"
        /\ (\E i \in 1 .. Len(timestamps) - 1 :
               timestamps[i] < time_in_ns /\ time_in_ns < timestamps[i + 1]
                   /\ Ascending(timestamps)) =>
               result.status = "ValueError" /\ result.msg = "no entry for time"

C4_Witness ==
    /\ op = "reading_at_time"
    /\ Len(timestamps) = 3
    /\ Ascending(timestamps)
    /\ Cardinality(Matches(timestamps, time_in_ns)) = 2
    /\ result.status = "ValueError"
    /\ result.msg = "multiple entries for timestamp"

(* C5: on a non-empty stream, check_time_in_range(t) and the interpolation *)
(* fail as out of range for every t below the first and every t above the  *)
(* last timestamp; check_time_in_range(t) does not fail for a t from the   *)
(* first to the last timestamp (both included); and the interpolation      *)
(* makes the range check before any search or indexing.                    *)
C5_RangeCheck ==
    Len(timestamps) >= 1 =>
        LET outside == time_in_ns < timestamps[1] \/ time_in_ns > timestamps[Len(timestamps)]
        IN  /\ (op = "check_time_in_range" /\ outside) =>
                   result.status = "ValueError" /\ result.msg = "time is out of range"
            /\ (op = "check_time_in_range" /\ ~outside) => result.status = "ok"
            /\ (Interpolated /\ outside) =>
                   /\ result.status = "ValueError"
                   /\ result.msg = "time is out of range"
                   /\ result.calls = <<<<"check_time_in_range", time_in_ns>>>>
            /\ Interpolated => Head(result.calls) = <<"check_time_in_range", time_in_ns>>

C5_Witness ==
    /\ Interpolated
    /\ Len(timestamps) >= 2
    /\ StrictlyAscending(timestamps)
    /\ time_in_ns > timestamps[Len(timestamps)]
    /\ result.status = "ValueError"

(* C10: with ascending timestamps and t from the first to the last         *)
(* timestamp: if t is not the final timestamp, first_reading_above(t) is   *)
(* the smallest timestamp > t with the lowest index holding it, and that   *)
(* index is one more than the index first_reading_below(t) returns, which  *)
(* is the highest index whose timestamp is <= t; if t is the final         *)
(* timestamp, first_reading_above(t) is (t, num_readings()).               *)
C10_Bracketing ==
    (Ascending(timestamps) /\ InRange(timestamps, time_in_ns)) =>
        LET n == Len(timestamps)
            t == time_in_ns
        IN  /\ (op = "first_reading_above" /\ t # timestamps[n]) =>
                   /\ result.status = "ok"
                   /\ result.val[1] > t
                   /\ \A i \in 1 .. n : timestamps[i] > t => result.val[1] <= timestamps[i]
                   /\ timestamps[result.val[2] + 1] = result.val[1]
                   /\ \A i \in 1 .. n : timestamps[i] = result.val[1] => result.val[2] + 1 <= i
                   /\ first_reading_below(timestamps, t).status = "ok"
                   /\ result.val[2] = first_reading_below(timestamps, t).val[2] + 1
            /\ op = "first_reading_below" =>
                   /\ result.status = "ok"
                   /\ timestamps[result.val[2] + 1] = result.val[1]
                   /\ result.val[1] <= t
                   /\ \A i \in 1 .. n : timestamps[i] <= t => i <= result.val[2] + 1
            /\ (op = "first_reading_above" /\ t = timestamps[n]) =>
                   result.status = "ok" /\ result.val = <<t, n>>

C10_Witness ==
    /\ op = "first_reading_above"
    /\ Len(timestamps) = 3
    /\ Ascending(timestamps)
    /\ timestamps[2] = timestamps[3]
    /\ time_in_ns = timestamps[1]
    /\ timestamps[1] < timestamps[2]
    /\ result.val = <<timestamps[2], 1>>

----------------------------------------------------------------------------
(* Properties of RecordStartStop, checked under SpecSpan *)

NonComment(ls) == {i \in 1 .. Len(ls) : ~ls[i].comment}

(* C8: RecordStartStop loads a file only when, the lines beginning with    *)
(* "//" removed, exactly 2 lines remain, the first with event type Start   *)
(* and the second with event type Stop; every loaded RecordStartStop holds *)
(* a Start event followed by a Stop event.                                 *)
C8_SpanIsStartThenStop ==
    span.status = "ok" =>
        /\ Cardinality(NonComment(lines)) = 2
        /\ lines[SetMin(NonComment(lines))].event = "Start"
        /\ lines[SetMax(NonComment(lines))].event = "Stop"

----------------------------------------------------------------------------
(* Properties of the session, checked under SpecSession *)

Entry(k) == filenames_and_handlers[k]

BadEntries == {k \in 1 .. NumEntries : Handle(Entry(k)[3], fs[k]).status # "ok"}

(* the piece of a path that names the profile entry's file *)
FilePiece(path, id) == path[Len(BaseDir) + 1 + 1 + Len(id) + 1 + 1]

(* C6: the handlers are invoked one at a time in the order of              *)
(* _filenames_and_handlers; when the handler of the k-th entry fails, no   *)
(* handler of a later entry is invoked, its error leaves the constructor,  *)
(* and no session object is returned, not even one holding the k-1         *)
(* streams loaded before.                                                  *)
C6_FailFastInOrder ==
    /\ \A i \in 1 .. Len(opened) : FilePiece(opened[i], vid_id) = Entry(i)[1]
    /\ \A i \in 1 .. Len(sensor_files) : sensor_files[i].handler = Entry(i)[3]
    /\ BadEntries # {} =>
           /\ Len(opened) <= SetMin(BadEntries)
           /\ Len(sensor_files) < SetMin(BadEntries)
           /\ pc # "constructed"
           /\ Len(opened) = SetMin(BadEntries) =>
                  /\ pc = "raised"
                  /\ error = Handle(Entry(Len(opened))[3], fs[Len(opened)])
                  /\ Len(sensor_files) = Len(opened) - 1
    /\ pc = "constructed" => Len(sensor_files) = NumEntries /\ error = NoError

C6_Witness ==
    /\ pc = "raised"
    /\ Len(opened) >= 2
    /\ Len(sensor_files) = Len(opened) - 1
    /\ \E j \in Len(opened) + 1 .. NumEntries : ~fs[j].exists
    /\ error.status = "IOError"

IsTimeSeries(sf) == sf.handler # "CameraParams"

ExpectedTime(sf) ==
    IF IsTimeSeries(sf) \/ Len(sf.data) >= 2
    THEN (IF IsTimeSeries(sf) THEN sf.timestamps[Len(sf.timestamps)] - sf.timestamps[1]
          ELSE sf.data[Len(sf.data)].digits - sf.data[1].digits)
    ELSE -1

(* C7: after a successful load whose TimestampedData streams are all       *)
(* non-empty, all_times_passed() does not fail and returns one integer per *)
(* profile entry, in load order: last minus first timestamp for every      *)
(* stream of two or more entries, the CameraParams stream included, and -1 *)
(* for a CameraParams stream of exactly one entry.                         *)
C7_AllTimesPassed ==
    (/\ pc = "constructed"
     /\ times.status # "none"
     /\ \A i \in 1 .. Len(sensor_files) :
            IsTimeSeries(sensor_files[i]) => Len(sensor_files[i].timestamps) >= 1
     /\ Len(sensor_files[NumEntries].data) >= 1)
    => /\ times.status = "ok"
       /\ Len(times.val) = NumEntries
       /\ \A i \in 1 .. NumEntries : times.val[i] = ExpectedTime(sensor_files[i])

IsVideoName(name) ==
    /\ Len(name) >= PrefixLen
    /\ \A i \in 1 .. PrefixLen : Lower(name[i]) = VideoPrefix[i]
    /\ Len(name) >= SuffixLen
    /\ \A i \in 1 .. SuffixLen : Lower(name[Len(name) - SuffixLen + i]) = Mp4Suffix[i]

(* C9: the constructor fails with the naming ValueError before any file is *)
(* opened or any handler invoked unless the basename starts with "video-"  *)
(* and ends with ".mp4", compared case-insensitively; when it passes,      *)
(* vid_id is the basename without its first 6 and last 4 characters, case  *)
(* preserved, and every handler is given the path                          *)
(* {dir}/videodata_video-{vid_id}/{file prefix}{vid_id}.txt.               *)
C9_NamingAndPaths ==
    pc # "start" =>
        /\ ~IsVideoName(vid_filename) =>
               /\ pc = "raised"
               /\ error.status = "ValueError"
               /\ error.msg \in {"expected filename to start with video-",
                                 "expected filename to end with mp4"}
               /\ opened = <<>>
               /\ sensor_files = <<>>
        /\ IsVideoName(vid_filename) =>
               /\ error.msg \notin {"expected filename to start with video-",
                                    "expected filename to end with mp4"}
               /\ Len(vid_id) = Len(vid_filename) - 10
               /\ \A i \in 1 .. Len(vid_id) : vid_id[i] = vid_filename[6 + i]
               /\ \A k \in 1 .. Len(opened) :
                      opened[k] = <<"base_dir", "/", "videodata_video-">> \o vid_id
                                      \o <<"/", Entry(k)[1]>> \o vid_id \o <<".txt">>

C9_Witness ==
    /\ pc = "constructed"
    /\ vid_filename = <<"V", "i", "d", "e", "o", "-", "a", "B", ".", "M", "P", "4">>
    /\ vid_id = <<"a", "B">>
    /\ Len(opened) = NumEntries

====
